---- MODULE Spec2Model ----
(***************************************************************************)
(* TaskGroup (agents/src/beta/workflows/task_group.ts): a sequential task  *)
(* scheduler whose queue is reordered when the running task is completed   *)
(* with an OutOfScopeError by the out_of_scope tool.                       *)
(***************************************************************************)
EXTENDS Integers, Sequences, FiniteSets, TLC

\* ------------------------------------------------------------------ bounds
\* Task ids that the caller and the tool's callers may name.
IdOrder == <<"a", "b", "c">>
TaskIds == {IdOrder[n] : n \in 1..Len(IdOrder)}
\* Number of add() calls before the run.
MaxAdds == 3
\* Number of task instances one run may create.
MaxAttempts == 4
\* Longest task_ids list handed to the out_of_scope tool.
MaxTargets == 2
\* Number of calls of the tool that complete a task with an OutOfScopeError.
MaxRegressions == 2

VARIABLES
    registeredFactories,  \* Map<string, FactoryInfo>, in insertion order
    returnExceptions,     \* this._returnExceptions
    summarizeChatCtx,     \* this._summarizeChatCtx
    hasCallback,          \* this._taskCompletedCallback !== undefined
    pc,                   \* where onEnter stands
    taskStack,            \* const taskStack (onEnter)
    taskResults,          \* const taskResults (onEnter), keys in insertion order
    visitedTasks,         \* this._visitedTasks
    currentTask,          \* this._currentTask: index into tasks, 0 = undefined
    tasks,                \* every AgentTask instance the factories returned
    callbackLog,          \* invocations of onTaskCompleted, in order
    completed,            \* arguments of the group's own complete(), in order
    lastCall,             \* the last call of an out_of_scope tool and its result
    addLog,               \* history: the ids of the add() calls, in order
    last                  \* history: the step taken last and the state it was taken in

vars == <<registeredFactories, returnExceptions, summarizeChatCtx, hasCallback, pc,
          taskStack, taskResults, visitedTasks, currentTask, tasks, callbackLog,
          completed, lastCall, addLog, last>>

RECURSIVE SeqToSet(_)
SeqToSet(s) == IF s = <<>> THEN {} ELSE {Head(s)} \cup SeqToSet(Tail(s))

\* ------------------------------------------------------ values and errors
NoOutcome == [kind |-> "none"]
NoError == [kind |-> "none"]
NoCall == [kind |-> "none", stale |-> FALSE, error |-> NoError, raised |-> FALSE]

\* What the task instance inst, made by factory f, completes with.
TaskValue(inst, f) == [kind |-> "value", inst |-> inst, factory |-> f]
\* new Error(message)
Error(message) == [kind |-> "Error", message |-> message]
\* A thrown value that is not an Error object.
Thrown(value) == [kind |-> "thrown", value |-> value]
\* new ToolError(`Unable to regress, invalid task id ${tid}`)
ToolError(tid) == [kind |-> "ToolError", message |-> <<"Unable to regress, invalid task id", tid>>]
\* class OutOfScopeError extends ToolError
OutOfScopeError(targetTaskIds) ==
    [kind |-> "OutOfScopeError", message |-> "out_of_scope", targetTaskIds |-> targetTaskIds]
\* The zod error of a task_ids list that `parameters` refuses: one issue per element.
ZodError(issues) == [kind |-> "ZodError", received |-> SeqToSet(issues)]

\* e instanceof Error
InstanceOfError(e) == e.kind \in {"Error", "ToolError", "OutOfScopeError", "ZodError"}
\* e instanceof OutOfScopeError
InstanceOfOutOfScopeError(e) == e.kind = "OutOfScopeError"
\* e instanceof Error ? e : new Error(String(e))
AsError(e) == IF InstanceOfError(e) THEN e ELSE Error(e.value)
\* Mutant: the error of the summarization is reported without naming the step.
SummarizeErrorUnlabelled(e) == Error(<<"", e>>)

\* new Error(`failed to summarize the chat_ctx: ${e}`)
SummarizeError(e) == Error(<<"failed to summarize the chat_ctx: ", e>>)
\* Mutant: the callback is handed the first instance of the run, not the finished one.
TaskCompletedEventFirstTask(agentTask, taskId, result) ==
    [agentTask |-> 1, taskId |-> taskId, result |-> result, threw |-> NoError]

\* { agentTask: this._currentTask, taskId, result: res }; threw records how the
\* invocation ended.
TaskCompletedEvent(agentTask, taskId, result) ==
    [agentTask |-> agentTask, taskId |-> taskId, result |-> result, threw |-> NoError]

\* { taskResults }
TaskGroupResult(results) == [kind |-> "result", taskResults |-> results]

\* --------------------------------------------- insertion-ordered mappings
\* A Map or a plain object is a sequence of [key, val] in insertion order.
Keys(m) == [i \in 1..Len(m) |-> m[i].key]
KeySet(m) == {m[i].key : i \in 1..Len(m)}
Has(m, k) == k \in KeySet(m)
Get(m, k) == m[CHOOSE i \in 1..Len(m) : m[i].key = k].val
\* Mutant: a key that is already present keeps its first value.
SetKeepFirst(m, k, v) ==
    IF Has(m, k) THEN m ELSE Append(m, [key |-> k, val |-> v])

\* m.set(k, v) / obj[k] = v: an existing key keeps its place, a new key goes last.
Set(m, k, v) ==
    IF Has(m, k)
    THEN [i \in 1..Len(m) |-> IF m[i].key = k THEN [key |-> k, val |-> v] ELSE m[i]]
    ELSE Append(m, [key |-> k, val |-> v])

\* ------------------------------------------------------------ the loop
\* Mutant: the catch block never looks at returnExceptions and always aborts.
CatchBranchAlwaysAbort(e, retExc) ==
    IF InstanceOfOutOfScopeError(e) THEN "regress" ELSE "abort"

\* Mutant: the catch block never looks at returnExceptions and always captures.
CatchBranchAlwaysCapture(e, retExc) ==
    IF InstanceOfOutOfScopeError(e) THEN "regress" ELSE "capture"

\* Mutant: the catch block has no branch for the OutOfScopeError.
CatchBranchNoRegress(e, retExc) ==
    IF retExc THEN "capture" ELSE "abort"

\* The catch block of onEnter: which of its three branches takes e.
CatchBranch(e, retExc) ==
    IF InstanceOfOutOfScopeError(e) THEN "regress"
    ELSE IF retExc THEN "capture"
    ELSE "abort"

Reverse(s) == [i \in 1..Len(s) |-> s[Len(s) + 1 - i]]

\* Mutant: the queue is seeded in reverse registration order.
InitialStackReversed(registered) == Reverse(Keys(registered))

\* const taskStack = [...this._registeredFactories.keys()]
InitialStack(registered) == Keys(registered)

\* Mutant: the targets are unshifted from first to last, which reverses them.
UnshiftedForward(stack, taskId, targetTaskIds) ==
    Reverse(targetTaskIds) \o <<taskId>> \o stack

RECURSIVE Dedup(_)
Dedup(s) == IF s = <<>> THEN <<>>
            ELSE LET front == Dedup(SubSeq(s, 1, Len(s) - 1))
                 IN  IF s[Len(s)] \in SeqToSet(front) THEN front
                     ELSE Append(front, s[Len(s)])

\* Mutant: a target that is listed more than once is queued once.
UnshiftedDeduplicated(stack, taskId, targetTaskIds) ==
    Dedup(targetTaskIds) \o <<taskId>> \o stack

\* Mutant: the interrupted task is not queued again.
UnshiftedTargetsOnly(stack, taskId, targetTaskIds) == targetTaskIds \o stack

\* taskStack.unshift(taskId), then unshift of the targets from last to first.
Unshifted(stack, taskId, targetTaskIds) == targetTaskIds \o <<taskId>> \o stack

\* Mutant: the head of the queue is read but not removed.
ShiftedNothing(stack) == stack

\* taskStack.shift(): what is left of the queue.
Shifted(stack) == Tail(stack)

\* Mutant: the id is not added to the visited set when its task starts.
VisitedAddSkipped(visited, taskId) == visited

\* this._visitedTasks.add(taskId)
VisitedAdd(visited, taskId) == visited \cup {taskId}

\* ------------------------------------------------- the out_of_scope tool
NoTool == [installed |-> FALSE, taskIdValues |-> {}, taskRepr |-> {}]

\* Mutant: the active id is not deleted from the copy of the visited set.
RegressionTaskIdsWithActive(visited, activeTaskId) == visited

\* regressionTaskIds: a copy of the visited set without the active id.
RegressionTaskIds(visited, activeTaskId) == visited \ {activeTaskId}

\* Mutant: the tool is built whatever the visited set holds.
BuildOutOfScopeToolAlways(activeTaskId, visited, registered) ==
    LET regressionTaskIds == RegressionTaskIds(visited, activeTaskId)
    IN  [installed |-> TRUE,
         taskIdValues |-> regressionTaskIds,
         taskRepr |-> {id \in KeySet(registered) : id \in regressionTaskIds}]

\* buildOutOfScopeTool(activeTaskId): undefined, or the tool with its enum and
\* the ids its description lists.
BuildOutOfScopeTool(activeTaskId, visited, registered) ==
    IF visited = {} THEN NoTool
    ELSE LET regressionTaskIds == RegressionTaskIds(visited, activeTaskId)
         IN  IF regressionTaskIds = {} THEN NoTool
             ELSE [installed |-> TRUE,
                   taskIdValues |-> regressionTaskIds,
                   taskRepr |-> {id \in KeySet(registered) : id \in regressionTaskIds}]

\* parameters: z.array(z.enum(taskIdValues)): the elements the enum refuses.
SchemaIssues(taskIdValues, task_ids) ==
    SelectSeq(task_ids, LAMBDA tid : tid \notin taskIdValues)

\* Mutant: execute accepts every id.
InvalidTaskIdNever(tid, registered, visited) == FALSE

\* Mutant: execute only tests that the id is registered.
InvalidTaskIdRegisteredOnly(tid, registered, visited) == ~Has(registered, tid)

\* The test of execute's loop on one id.
InvalidTaskId(tid, registered, visited) ==
    ~Has(registered, tid) \/ tid \notin visited

\* execute's validation loop: the error it throws, or none.
ExecuteError(task_ids, registered, visited) ==
    LET bad == SelectSeq(task_ids, LAMBDA tid : InvalidTaskId(tid, registered, visited))
    IN  IF bad = <<>> THEN NoError ELSE ToolError(Head(bad))

\* Mutant: the tool reads this._currentTask when it is called.
CapturedTaskLive(inst, current) == current

\* const currentTask = this._currentTask: the instance the tool of inst completes.
CapturedTask(inst, current) == inst

\* if (currentTask && !currentTask.done)
MayComplete(task) == ~task.done

\* The record of a step named event, taken in the current state.
Snapshot(event) ==
    [event |-> event, pc |-> pc, taskStack |-> taskStack, taskResults |-> taskResults,
     visitedTasks |-> visitedTasks, completed |-> completed, tasks |-> tasks]

\* --------------------------------------------------------------- Init
Init ==
    /\ registeredFactories = <<>>
    /\ returnExceptions \in BOOLEAN
    /\ summarizeChatCtx \in BOOLEAN
    /\ hasCallback \in BOOLEAN
    /\ pc = "init"
    /\ taskStack = <<>>
    /\ taskResults = <<>>
    /\ visitedTasks = {}
    /\ currentTask = 0
    /\ tasks = <<>>
    /\ callbackLog = <<>>
    /\ completed = <<>>
    /\ lastCall = NoCall
    /\ addLog = <<>>
    /\ last = [event |-> "Init", pc |-> "init", taskStack |-> <<>>, taskResults |-> <<>>,
               visitedTasks |-> {}, completed |-> <<>>, tasks |-> <<>>]

\* The number of add() calls made so far names the factory passed to the next one.
AddCalls == IF registeredFactories = <<>> THEN 0
            ELSE CHOOSE n \in 1..MaxAdds :
                   /\ \E i \in 1..Len(registeredFactories) : registeredFactories[i].val = n
                   /\ \A i \in 1..Len(registeredFactories) : registeredFactories[i].val <= n

\* Ids are interchangeable names, so a new id is the next one of IdOrder.
IsNextNewId(id) ==
    /\ Len(registeredFactories) < Len(IdOrder)
    /\ id = IdOrder[Len(registeredFactories) + 1]

\* add(task, {id, description})
Add(id) ==
    /\ last' = Snapshot("Add")
    /\ pc = "init"
    /\ AddCalls < MaxAdds
    /\ Has(registeredFactories, id) \/ IsNextNewId(id)
    /\ registeredFactories' = Set(registeredFactories, id, AddCalls + 1)
    /\ addLog' = Append(addLog, id)
    /\ UNCHANGED <<returnExceptions, summarizeChatCtx, hasCallback, pc, taskStack,
                   taskResults, visitedTasks, currentTask, tasks, callbackLog,
                   completed, lastCall>>

\* onEnter, lines 65-66
OnEnter ==
    /\ last' = Snapshot("OnEnter")
    /\ pc = "init"
    /\ taskStack' = InitialStack(registeredFactories)
    /\ taskResults' = <<>>
    /\ pc' = "loop"
    /\ UNCHANGED <<addLog, registeredFactories, returnExceptions, summarizeChatCtx, hasCallback,
                   visitedTasks, currentTask, tasks, callbackLog, completed, lastCall>>

\* Mutant: the next task is started without awaiting the run() of the one before.
StartTaskWithinEarly(limit) ==
    /\ last' = Snapshot("StartTask")
    /\ pc \in {"loop", "run"}
    /\ taskStack # <<>>
    /\ Len(tasks) < limit
    /\ LET taskId == Head(taskStack)
           factory == Get(registeredFactories, taskId)
       IN  /\ taskStack' = Shifted(taskStack)
           /\ tasks' = Append(tasks,
                 [taskId |-> taskId, factory |-> factory, done |-> FALSE,
                  outcome |-> NoOutcome,
                  out_of_scope |-> BuildOutOfScopeTool(taskId, visitedTasks,
                                                       registeredFactories)])
           /\ currentTask' = Len(tasks) + 1
           /\ visitedTasks' = VisitedAdd(visitedTasks, taskId)
           /\ pc' = "run"
    /\ lastCall' = NoCall
    /\ UNCHANGED <<addLog, registeredFactories, returnExceptions, summarizeChatCtx, hasCallback,
                   taskResults, callbackLog, completed>>

\* One iteration up to the await of run(): lines 69-87; limit caps the number of
\* instances of the run.
StartTaskWithin(limit) ==
    /\ last' = Snapshot("StartTask")
    /\ pc = "loop"
    /\ taskStack # <<>>
    /\ Len(tasks) < limit
    /\ LET taskId == Head(taskStack)
           factory == Get(registeredFactories, taskId)
       IN  /\ taskStack' = Shifted(taskStack)
           /\ tasks' = Append(tasks,
                 [taskId |-> taskId, factory |-> factory, done |-> FALSE,
                  outcome |-> NoOutcome,
                  out_of_scope |-> BuildOutOfScopeTool(taskId, visitedTasks,
                                                       registeredFactories)])
           /\ currentTask' = Len(tasks) + 1
           /\ visitedTasks' = VisitedAdd(visitedTasks, taskId)
           /\ pc' = "run"
    /\ lastCall' = NoCall
    /\ UNCHANGED <<addLog, registeredFactories, returnExceptions, summarizeChatCtx, hasCallback,
                   taskResults, callbackLog, completed>>

StartTask == StartTaskWithin(MaxAttempts)

\* The running task completes itself: this.complete(value)
TaskCompletes ==
    /\ last' = Snapshot("TaskCompletes")
    /\ pc = "run"
    /\ ~tasks[currentTask].done
    /\ tasks' = [tasks EXCEPT ![currentTask].done = TRUE,
                              ![currentTask].outcome =
                                  TaskValue(currentTask, tasks[currentTask].factory)]
    /\ lastCall' = NoCall
    /\ UNCHANGED <<addLog, registeredFactories, returnExceptions, summarizeChatCtx, hasCallback,
                   pc, taskStack, taskResults, visitedTasks, currentTask, callbackLog,
                   completed>>

\* The running task completes itself: this.complete(new Error('task-failure'))
TaskFails ==
    /\ last' = Snapshot("TaskFails")
    /\ pc = "run"
    /\ ~tasks[currentTask].done
    /\ tasks' = [tasks EXCEPT ![currentTask].done = TRUE,
                              ![currentTask].outcome =
                                  Error(<<"task-failure", currentTask>>)]
    /\ lastCall' = NoCall
    /\ UNCHANGED <<addLog, registeredFactories, returnExceptions, summarizeChatCtx, hasCallback,
                   pc, taskStack, taskResults, visitedTasks, currentTask, callbackLog,
                   completed>>

\* The OutOfScopeErrors raised so far.
Regressions == Cardinality({i \in 1..Len(tasks) : tasks[i].outcome.kind = "OutOfScopeError"})

\* What a call of the tool installed on instance inst does with task_ids: the error
\* it is refused with, the instance it would complete, and whether it completes it.
\* parsed says whether the caller ran task_ids through `parameters` before execute.
CallResult(inst, task_ids, parsed) ==
    LET tool == tasks[inst].out_of_scope
        issues == IF parsed THEN SchemaIssues(tool.taskIdValues, task_ids) ELSE <<>>
        err == IF issues # <<>> THEN ZodError(issues)
               ELSE ExecuteError(task_ids, registeredFactories, visitedTasks)
        target == CapturedTask(inst, currentTask)
    IN  [error |-> err, target |-> target,
         raised |-> err = NoError /\ MayComplete(tasks[target])]

\* A call of the out_of_scope tool installed on instance inst.
ToolCall(inst, task_ids, parsed) ==
    /\ last' = Snapshot("ToolCall")
    /\ pc = "run"
    /\ (lastCall.kind = "none" \/ lastCall.raised)
    /\ inst \in 1..Len(tasks)
    /\ tasks[inst].out_of_scope.installed
    /\ LET r == CallResult(inst, task_ids, parsed)
       IN  /\ r.raised => Regressions < MaxRegressions
           /\ tasks' = IF r.raised
                       THEN [tasks EXCEPT ![r.target].done = TRUE,
                                          ![r.target].outcome = OutOfScopeError(task_ids)]
                       ELSE tasks
           /\ lastCall' = [kind |-> "call", stale |-> inst # currentTask,
                           error |-> r.error, raised |-> r.raised]
    /\ UNCHANGED <<addLog, registeredFactories, returnExceptions, summarizeChatCtx, hasCallback,
                   pc, taskStack, taskResults, visitedTasks, currentTask, callbackLog,
                   completed>>

\* Mutant: the OutOfScopeError branch also deletes the result stored for taskId.
CatchRegressionDropsResult(taskId, e) ==
    LET branch == CatchBranch(e, returnExceptions)
    IN  /\ taskStack' = IF branch = "regress"
                        THEN Unshifted(taskStack, taskId, e.targetTaskIds)
                        ELSE taskStack
        /\ taskResults' = IF branch = "capture" THEN Set(taskResults, taskId, e)
                          ELSE IF branch = "regress"
                          THEN SelectSeq(taskResults, LAMBDA r : r.key # taskId)
                          ELSE taskResults
        /\ completed' = IF branch = "abort" THEN Append(completed, AsError(e))
                        ELSE completed
        /\ pc' = IF branch = "abort" THEN "returned" ELSE "loop"

\* Mutant: the fail-fast branch leaves the loop (break) instead of returning.
CatchAbortBreaks(taskId, e) ==
    LET branch == CatchBranch(e, returnExceptions)
    IN  /\ taskStack' = IF branch = "regress"
                        THEN Unshifted(taskStack, taskId, e.targetTaskIds)
                        ELSE taskStack
        /\ taskResults' = IF branch = "capture" THEN Set(taskResults, taskId, e)
                          ELSE taskResults
        /\ completed' = IF branch = "abort" THEN Append(completed, AsError(e))
                        ELSE completed
        /\ pc' = IF branch # "abort" THEN "loop"
                 ELSE IF summarizeChatCtx THEN "summarize" ELSE "returned"

\* Mutant: the fail-fast branch returns without calling complete().
CatchAbortNoComplete(taskId, e) ==
    LET branch == CatchBranch(e, returnExceptions)
    IN  /\ taskStack' = IF branch = "regress"
                        THEN Unshifted(taskStack, taskId, e.targetTaskIds)
                        ELSE taskStack
        /\ taskResults' = IF branch = "capture" THEN Set(taskResults, taskId, e)
                          ELSE taskResults
        /\ completed' = completed
        /\ pc' = IF branch = "abort" THEN "returned" ELSE "loop"

\* The catch block, lines 97-113, for the error e of the iteration of taskId.
Catch(taskId, e) ==
    LET branch == CatchBranch(e, returnExceptions)
    IN  /\ taskStack' = IF branch = "regress"
                        THEN Unshifted(taskStack, taskId, e.targetTaskIds)
                        ELSE taskStack
        /\ taskResults' = IF branch = "capture" THEN Set(taskResults, taskId, e)
                          ELSE taskResults
        /\ completed' = IF branch = "abort" THEN Append(completed, AsError(e))
                        ELSE completed
        /\ pc' = IF branch = "abort" THEN "returned" ELSE "loop"

\* await run() resolves: lines 87-96
RunResolved ==
    /\ last' = Snapshot("RunResolved")
    /\ pc = "run"
    /\ tasks[currentTask].done
    /\ tasks[currentTask].outcome.kind = "value"
    /\ LET taskId == tasks[currentTask].taskId
           res == tasks[currentTask].outcome
       IN  /\ taskResults' = Set(taskResults, taskId, res)
           /\ IF hasCallback
              THEN /\ callbackLog' = Append(callbackLog,
                        TaskCompletedEvent(currentTask, taskId, res))
                   /\ pc' = "callback"
              ELSE /\ callbackLog' = callbackLog
                   /\ pc' = "loop"
    /\ lastCall' = NoCall
    /\ UNCHANGED <<addLog, registeredFactories, returnExceptions, summarizeChatCtx, hasCallback,
                   taskStack, visitedTasks, currentTask, tasks, completed>>

\* await run() rejects with what the task was completed with
RunRejected ==
    /\ last' = Snapshot("RunRejected")
    /\ pc = "run"
    /\ tasks[currentTask].done
    /\ tasks[currentTask].outcome.kind # "value"
    /\ Catch(tasks[currentTask].taskId, tasks[currentTask].outcome)
    /\ lastCall' = NoCall
    /\ UNCHANGED <<addLog, registeredFactories, returnExceptions, summarizeChatCtx, hasCallback,
                   visitedTasks, currentTask, tasks, callbackLog>>

\* await this._taskCompletedCallback(...) resolves
CallbackReturns ==
    /\ last' = Snapshot("CallbackReturns")
    /\ pc = "callback"
    /\ pc' = "loop"
    /\ lastCall' = NoCall
    /\ UNCHANGED <<addLog, registeredFactories, returnExceptions, summarizeChatCtx, hasCallback,
                   taskStack, taskResults, visitedTasks, currentTask, tasks, callbackLog,
                   completed>>

\* await this._taskCompletedCallback(...) rejects with e
CallbackThrows(e) ==
    /\ last' = Snapshot("CallbackThrows")
    /\ pc = "callback"
    /\ callbackLog' = [callbackLog EXCEPT ![Len(callbackLog)].threw = e]
    /\ Catch(tasks[currentTask].taskId, e)
    /\ lastCall' = NoCall
    /\ UNCHANGED <<addLog, registeredFactories, returnExceptions, summarizeChatCtx, hasCallback,
                   visitedTasks, currentTask, tasks>>

\* The loop ends with the queue empty: lines 116-117, 141
LoopExit ==
    /\ last' = Snapshot("LoopExit")
    /\ pc = "loop"
    /\ taskStack = <<>>
    /\ IF summarizeChatCtx
       THEN /\ pc' = "summarize"
            /\ completed' = completed
       ELSE /\ pc' = "returned"
            /\ completed' = Append(completed, TaskGroupResult(taskResults))
    /\ lastCall' = NoCall
    /\ UNCHANGED <<addLog, registeredFactories, returnExceptions, summarizeChatCtx, hasCallback,
                   taskStack, taskResults, visitedTasks, currentTask, tasks, callbackLog>>

\* The summarization succeeds: lines 131-134, 141
SummarizeReturns ==
    /\ last' = Snapshot("SummarizeReturns")
    /\ pc = "summarize"
    /\ pc' = "returned"
    /\ completed' = Append(completed, TaskGroupResult(taskResults))
    /\ lastCall' = NoCall
    /\ UNCHANGED <<addLog, registeredFactories, returnExceptions, summarizeChatCtx, hasCallback,
                   taskStack, taskResults, visitedTasks, currentTask, tasks, callbackLog>>

\* The summarization throws e: lines 119-121 or 131, then 136-138
SummarizeThrows(e) ==
    /\ last' = Snapshot("SummarizeThrows")
    /\ pc = "summarize"
    /\ pc' = "returned"
    /\ completed' = Append(completed, SummarizeError(e))
    /\ lastCall' = NoCall
    /\ UNCHANGED <<addLog, registeredFactories, returnExceptions, summarizeChatCtx, hasCallback,
                   taskStack, taskResults, visitedTasks, currentTask, tasks, callbackLog>>

\* The lists a caller may hand to the tool.
RECURSIVE ListsUpTo(_)
ListsUpTo(n) == IF n = 0 THEN {<<>>}
                ELSE ListsUpTo(n - 1) \cup
                     {Append(s, x) : s \in {t \in ListsUpTo(n - 1) : Len(t) = n - 1},
                                     x \in TaskIds}
TargetLists == ListsUpTo(MaxTargets)

CallbackErrors == {Error("callback-failure"), Thrown("callback-raw")}
SummarizeErrors == {Error("summarizeChatCtx requires a standard LLM on the session"),
                    Error("summarize-failure")}

Next ==
    \/ \E id \in TaskIds : Add(id)
    \/ OnEnter
    \/ StartTask
    \/ TaskCompletes
    \/ TaskFails
    \/ \E inst \in 1..MaxAttempts, task_ids \in TargetLists, parsed \in BOOLEAN :
          ToolCall(inst, task_ids, parsed)
    \/ RunResolved
    \/ RunRejected
    \/ CallbackReturns
    \/ \E e \in CallbackErrors : CallbackThrows(e)
    \/ LoopExit
    \/ SummarizeReturns
    \/ \E e \in SummarizeErrors : SummarizeThrows(e)

Spec == Init /\ [][Next]_vars

\* ------------------------------------------------- the run to its end
\* Bounds of the runs that are followed to their end: add() calls, and the
\* longest task_ids list.
LiveMaxAdds == 2
LiveMaxTargets == 1
\* No run within these bounds starts more instances: every OutOfScopeError
\* queues its targets and the interrupted task.
LiveAttempts == LiveMaxAdds + MaxRegressions * (LiveMaxTargets + 1)

LiveAdd(id) == AddCalls < LiveMaxAdds /\ Add(id)
LiveStartTask == StartTaskWithin(LiveAttempts)
\* The running task completes itself, one way or the other.
AttemptEnds == TaskCompletes \/ TaskFails
\* The callback ends, one way or the other.
CallbackEnds == CallbackReturns \/ \E e \in CallbackErrors : CallbackThrows(e)
\* The summarization ends, one way or the other.
SummarizeEnds == SummarizeReturns \/ \E e \in SummarizeErrors : SummarizeThrows(e)

LiveNext ==
    \/ \E id \in TaskIds : LiveAdd(id)
    \/ OnEnter
    \/ LiveStartTask
    \/ AttemptEnds
    \/ \E inst \in 1..LiveAttempts, task_ids \in ListsUpTo(LiveMaxTargets),
          parsed \in BOOLEAN : ToolCall(inst, task_ids, parsed)
    \/ RunResolved
    \/ RunRejected
    \/ CallbackEnds
    \/ LoopExit
    \/ SummarizeEnds

\* The continuations of onEnter run once what they await has settled; every
\* attempt ends, the callback and the summarization end; MaxRegressions bounds
\* the OutOfScopeErrors of a run.
LiveSpec ==
    /\ Init
    /\ [][LiveNext]_vars
    /\ WF_vars(LiveStartTask)
    /\ WF_vars(RunResolved)
    /\ WF_vars(RunRejected)
    /\ WF_vars(LoopExit)
    /\ WF_vars(AttemptEnds)
    /\ WF_vars(CallbackEnds)
    /\ WF_vars(SummarizeEnds)

\* ================================================================ claims
\* The ids of the instances created so far, in the order they were started.
StartedIds == [i \in 1..Len(tasks) |-> tasks[i].taskId]
\* The ids the callback was invoked with, in order.
CallbackIds == [i \in 1..Len(callbackLog) |-> callbackLog[i].taskId]
IsPrefix(s, t) == Len(s) <= Len(t) /\ \A i \in 1..Len(s) : s[i] = t[i]
RegistrationOrder == Keys(registeredFactories)

RegressionRaised == \E i \in 1..Len(tasks) : tasks[i].outcome.kind = "OutOfScopeError"
TaskFailed == \E i \in 1..Len(tasks) : tasks[i].outcome.kind = "Error"
CallbackThrew == \E i \in 1..Len(callbackLog) : callbackLog[i].threw # NoError
SummarizeFailed == \E i \in 1..Len(completed) :
                      \E e \in SummarizeErrors : completed[i] = SummarizeError(e)
\* The run resolved with a result set.
Resolved == pc = "returned" /\ completed # <<>> /\ completed[1].kind = "result"
\* The loop consumed the OutOfScopeError of the current task in the last step.
RegressionConsumed ==
    /\ last.event = "RunRejected"
    /\ tasks[currentTask].outcome.kind = "OutOfScopeError"
\* The loop consumed a failure of the current task's run in the last step.
FailureConsumed ==
    /\ last.event = "RunRejected"
    /\ tasks[currentTask].outcome.kind = "Error"

C2_RegressionRequeue ==
    /\ last.event = "StartTask" =>
          /\ last.taskStack # <<>>
          /\ tasks[currentTask].taskId = Head(last.taskStack)
          /\ taskStack = Tail(last.taskStack)
    /\ RegressionConsumed =>
          /\ pc = "loop"
          /\ taskStack = tasks[currentTask].outcome.targetTaskIds
                            \o <<tasks[currentTask].taskId>> \o last.taskStack

C2_Witness ==
    /\ RegressionConsumed
    /\ Len(tasks[currentTask].outcome.targetTaskIds) = 2
    /\ tasks[currentTask].outcome.targetTaskIds[1] # tasks[currentTask].outcome.targetTaskIds[2]
    /\ last.taskStack # <<>>
\* An id that the tool must refuse: not registered, or never visited.
UnregisteredOrUnvisited(tid) == ~Has(registeredFactories, tid) \/ tid \notin visitedTasks
\* The error e names the id tid.
Names(e, tid) ==
    \/ e.kind = "ToolError" /\ e.message[2] = tid
    \/ e.kind = "ZodError" /\ tid \in e.received

\* C3: a call whose list holds an unregistered or never visited id is refused with
\* an error that names the first such id of the list, whatever else the list holds;
\* a refused call completes no task and leaves the queue, the visited set, the
\* results and the run where they were.
C3_InvalidTargetRejected ==
    /\ \A inst \in 1..Len(tasks) : tasks[inst].out_of_scope.installed =>
          \A task_ids \in TargetLists, parsed \in BOOLEAN :
             LET bad == SelectSeq(task_ids, UnregisteredOrUnvisited)
                 r == CallResult(inst, task_ids, parsed)
             IN  bad # <<>> => /\ ~r.raised
                               /\ r.error # NoError
                               /\ Names(r.error, Head(bad))
                               /\ ~parsed => r.error = ToolError(Head(bad))
    /\ (lastCall.kind = "call" /\ lastCall.error # NoError) =>
          /\ ~lastCall.raised
          /\ tasks = last.tasks
          /\ taskStack = last.taskStack
          /\ visitedTasks = last.visitedTasks
          /\ taskResults = last.taskResults
          /\ completed = last.completed
          /\ pc = last.pc

C3_Witness ==
    /\ lastCall.kind = "call"
    /\ lastCall.error.kind = "ToolError"
    /\ ~lastCall.stale
    /\ pc = "run"
    /\ ~tasks[currentTask].done
    /\ taskStack # <<>>

\* C4: no task is completed with an OutOfScopeError whose targets hold the id of
\* that task itself.
C4_SelfTargetRejected ==
    \A i \in 1..Len(tasks) :
        tasks[i].outcome.kind = "OutOfScopeError" =>
            tasks[i].taskId \notin SeqToSet(tasks[i].outcome.targetTaskIds)

\* C5: with returnExceptions, a failure of a task's run is stored as that task's
\* result with its message, the run is not completed by it and the queue is kept;
\* the loop is only left with the queue drained, so every queued task is started.
C5_CollectAndContinue ==
    /\ (returnExceptions /\ FailureConsumed) =>
          /\ pc = "loop"
          /\ Has(taskResults, tasks[currentTask].taskId)
          /\ Get(taskResults, tasks[currentTask].taskId) =
                Error(<<"task-failure", currentTask>>)
          /\ completed = <<>>
          /\ taskStack = last.taskStack
    /\ (returnExceptions /\ pc \in {"summarize", "returned"}) =>
          /\ taskStack = <<>>
          /\ KeySet(registeredFactories) \subseteq SeqToSet(StartedIds)

C5_Witness ==
    /\ Resolved
    /\ returnExceptions
    /\ \E i \in 1..Len(tasks) :
          /\ i < Len(tasks)
          /\ tasks[i].outcome.kind = "Error"
          /\ Get(taskResults, tasks[i].taskId) = tasks[i].outcome

\* C6: without returnExceptions, a failure of a task's run ends the run at once:
\* the group is completed with that failure, nothing is written to the results
\* (whose entries are values of earlier successful attempts) and the queue is left
\* as it was, never to be popped again.
C6_FailFast ==
    (~returnExceptions /\ FailureConsumed) =>
        /\ pc = "returned"
        /\ completed = <<Error(<<"task-failure", currentTask>>)>>
        /\ taskResults = last.taskResults
        /\ taskStack = last.taskStack
        /\ \A k \in 1..Len(taskResults) :
              \E i \in 1..(currentTask - 1) : taskResults[k].val = tasks[i].outcome
        /\ \A id \in SeqToSet(taskStack) \cup {tasks[currentTask].taskId} :
              Has(taskResults, id) =>
                 \E i \in 1..(currentTask - 1) :
                    tasks[i].taskId = id /\ tasks[i].outcome.kind = "value"

C6_Witness ==
    /\ ~returnExceptions
    /\ FailureConsumed
    /\ taskStack # <<>>
    /\ taskResults # <<>>

\* C7: a failure of the callback ends the run at once with that failure and is
\* not stored as a result, with returnExceptions as without.
C7_CallbackFailureFatal ==
    last.event = "CallbackThrows" =>
        /\ pc = "returned"
        /\ completed = <<AsError(callbackLog[Len(callbackLog)].threw)>>
        /\ taskResults = last.taskResults

\* C8: the visited set only grows, and holds exactly the ids of the instances
\* started so far: an id enters it when its first instance is started.
C8_VisitedMonotone ==
    /\ last.visitedTasks \subseteq visitedTasks
    /\ visitedTasks = SeqToSet(StartedIds)
    /\ last.event = "StartTask" =>
          visitedTasks = last.visitedTasks \cup {tasks[currentTask].taskId}
    /\ last.event # "StartTask" => visitedTasks = last.visitedTasks

C8_Witness ==
    /\ RegressionRaised
    /\ pc = "run"
    /\ \E i \in 1..(currentTask - 1) : tasks[i].taskId = tasks[currentTask].taskId
    /\ Cardinality(visitedTasks) >= 2

\* C9: an OutOfScopeError is neither stored in the results nor handed to the
\* group's complete(); the step that consumes it only changes the queue.
C9_RegressionNotFailure ==
    /\ RegressionConsumed =>
          /\ pc = "loop"
          /\ taskResults = last.taskResults
          /\ completed = last.completed
          /\ completed = <<>>
    /\ \A k \in 1..Len(taskResults) : taskResults[k].val.kind # "OutOfScopeError"
    /\ \A k \in 1..Len(completed) : completed[k].kind # "OutOfScopeError"

C9_Witness ==
    /\ RegressionConsumed
    /\ ~returnExceptions
    /\ taskResults # <<>>

\* The last instance started for id.
LastAttempt(id) ==
    CHOOSE i \in 1..Len(tasks) :
        /\ tasks[i].taskId = id
        /\ \A j \in (i + 1)..Len(tasks) : tasks[j].taskId # id

\* C10: when the run resolves, the results hold one entry per registered id, and
\* the entry of an id is what its last instance was completed with.
C10_LatestAttemptWins ==
    Resolved =>
        /\ Len(taskResults) = Cardinality(KeySet(taskResults))
        /\ KeySet(taskResults) = KeySet(registeredFactories)
        /\ \A id \in KeySet(taskResults) :
              Get(taskResults, id) = tasks[LastAttempt(id)].outcome

\* C10 the same, for the runs in which no callback threw.
C10_LatestAttemptWinsNoCallbackFailure ==
    ~CallbackThrew => C10_LatestAttemptWins

C10_Witness ==
    /\ Resolved
    /\ ~CallbackThrew
    /\ RegressionRaised
    /\ \E i \in 1..Len(tasks) :
          /\ tasks[i].outcome.kind = "value"
          /\ LastAttempt(tasks[i].taskId) > i

\* The instances whose run() has resolved with a value, in the order they finished.
Succeeded ==
    SelectSeq([i \in 1..Len(tasks) |-> i],
              LAMBDA i : /\ tasks[i].outcome.kind = "value"
                         /\ (i < currentTask \/ pc # "run"))

\* C11: the callback is invoked once for each attempt whose run resolved with a
\* value, in the order those attempts finished (re-runs after a regression
\* included), with that attempt's instance, id and value; it is never invoked for
\* an attempt that ended in an OutOfScopeError or in a failure.
C11_CallbackPerSuccess ==
    /\ ~hasCallback => callbackLog = <<>>
    /\ hasCallback =>
          /\ Len(callbackLog) = Len(Succeeded)
          /\ \A k \in 1..Len(callbackLog) :
                /\ callbackLog[k].agentTask = Succeeded[k]
                /\ callbackLog[k].taskId = tasks[Succeeded[k]].taskId
                /\ callbackLog[k].result = tasks[Succeeded[k]].outcome
    /\ \A k \in 1..Len(callbackLog) :
          tasks[callbackLog[k].agentTask].outcome.kind \notin {"OutOfScopeError", "Error"}

C11_Witness ==
    /\ hasCallback
    /\ RegressionRaised
    /\ TaskFailed
    /\ pc = "loop"
    /\ Len(tasks) = 4
    /\ Len(callbackLog) = 2
    /\ callbackLog[1].taskId = callbackLog[2].taskId
    /\ callbackLog[1].agentTask # callbackLog[2].agentTask

\* C12: the key of the result just stored comes last in the key order of the
\* results, also when the id had a result from an earlier attempt.
C12_OrderOfLastCompletion ==
    last.event = "RunResolved" =>
        Keys(taskResults)[Len(taskResults)] = tasks[currentTask].taskId

\* C13: when the summarization throws, the group is completed once, with an Error
\* whose message starts with "failed to summarize the chat_ctx: " and carries what
\* was thrown, and never with a result set; the summarization is only reached
\* with the queue drained, with returnExceptions as without, whatever the
\* results hold.
C13_SummarizeFailureFatal ==
    /\ pc = "summarize" => (summarizeChatCtx /\ taskStack = <<>> /\ completed = <<>>)
    /\ last.event = "SummarizeThrows" =>
          /\ pc = "returned"
          /\ Len(completed) = 1
          /\ completed[1].kind = "Error"
          /\ completed[1].message[1] = "failed to summarize the chat_ctx: "
          /\ completed[1].message[2] \in SummarizeErrors
          /\ taskResults = last.taskResults

C13_Witness ==
    /\ last.event = "SummarizeThrows"
    /\ returnExceptions
    /\ \E k \in 1..Len(taskResults) : taskResults[k].val.kind = "Error"
    /\ \E k \in 1..Len(taskResults) : taskResults[k].val.kind = "value"

\* C13, the other policy: the summarization throws after every task succeeded.
C13_WitnessFailFast ==
    /\ last.event = "SummarizeThrows"
    /\ ~returnExceptions
    /\ Len(taskResults) >= 2

\* The factory handed to the last add() call that named id (factories are
\* numbered by the call that passed them).
LatestFactory(id) ==
    CHOOSE n \in 1..Len(addLog) :
        /\ addLog[n] = id
        /\ \A m \in (n + 1)..Len(addLog) : addLog[m] # id

\* C14: add() of an id that is already registered replaces its entry: the registry
\* holds each id once, with the factory of the last add() that named it; the queue
\* onEnter starts from holds each registered id exactly once; every instance
\* started for an id was made by that last factory.
C14_LastWriteWins ==
    /\ KeySet(registeredFactories) = SeqToSet(addLog)
    /\ Len(registeredFactories) = Cardinality(KeySet(registeredFactories))
    /\ \A id \in KeySet(registeredFactories) :
          Get(registeredFactories, id) = LatestFactory(id)
    /\ last.event = "OnEnter" =>
          /\ SeqToSet(taskStack) = SeqToSet(addLog)
          /\ Len(taskStack) = Cardinality(SeqToSet(addLog))
    /\ \A i \in 1..Len(tasks) :
          /\ tasks[i].factory = LatestFactory(tasks[i].taskId)
          /\ tasks[i].outcome.kind = "value" =>
                tasks[i].outcome.factory = LatestFactory(tasks[i].taskId)

C14_Witness ==
    /\ Len(addLog) = 3
    /\ addLog[1] = addLog[3]
    /\ addLog[2] # addLog[1]
    /\ RegressionRaised
    /\ pc = "run"
    /\ tasks[currentTask].taskId = addLog[1]
    /\ tasks[currentTask].factory = 3
    /\ \E i \in 1..(currentTask - 1) : tasks[i].taskId = addLog[1] /\ tasks[i].factory = 3

\* C15: no task is completed with an OutOfScopeError that carries an empty list
\* of targets.
C15_NonEmptyTargets ==
    \A i \in 1..Len(tasks) :
        tasks[i].outcome.kind = "OutOfScopeError" => tasks[i].outcome.targetTaskIds # <<>>

\* C15, at the loop: a consumed OutOfScopeError never re-queues just the task itself.
C15_NoRequeueByEmptyList ==
    RegressionConsumed => taskStack # <<tasks[currentTask].taskId>> \o last.taskStack

\* The attempt of the current task's id before the current one, 0 if there is none.
PreviousAttempt ==
    LET earlier == {i \in 1..(currentTask - 1) : tasks[i].taskId = tasks[currentTask].taskId}
    IN  IF earlier = {} THEN 0
        ELSE CHOOSE i \in earlier : \A j \in earlier : j <= i
\* The callback threw when it was invoked for instance i.
CallbackThrewFor(i) ==
    \E k \in 1..Len(callbackLog) :
        callbackLog[k].agentTask = i /\ callbackLog[k].threw # NoError

\* C16: an attempt that ends in an OutOfScopeError writes nothing to the results:
\* neither the start of the attempt, nor a call of the tool, nor the step that
\* consumes the OutOfScopeError changes them, so the value the previous attempt of
\* the same id stored is still there when the id is queued again.
C16_RegressionWritesNothing ==
    /\ last.event \in {"StartTask", "ToolCall"} => taskResults = last.taskResults
    /\ RegressionConsumed =>
          /\ taskResults = last.taskResults
          /\ KeySet(taskResults) = KeySet(last.taskResults)
          /\ (/\ PreviousAttempt # 0
              /\ tasks[PreviousAttempt].outcome.kind = "value"
              /\ ~CallbackThrewFor(PreviousAttempt)) =>
                /\ Has(taskResults, tasks[currentTask].taskId)
                /\ Get(taskResults, tasks[currentTask].taskId) =
                      tasks[PreviousAttempt].outcome

C16_Witness ==
    /\ RegressionConsumed
    /\ PreviousAttempt # 0
    /\ tasks[PreviousAttempt].outcome.kind = "value"
    /\ Get(taskResults, tasks[currentTask].taskId) = tasks[PreviousAttempt].outcome
    /\ tasks[currentTask].outcome.targetTaskIds # <<>>
    /\ tasks[currentTask].taskId \notin SeqToSet(tasks[currentTask].outcome.targetTaskIds)

\* The ids of the instances started before instance i.
VisitedBefore(i) == {tasks[j].taskId : j \in 1..(i - 1)}

\* C17: the tool is installed on an instance exactly when the ids visited before
\* it was started, without its own id, are not empty; the first instance of a run
\* has no tool, and no instance has one when a single id is registered.
C17_ToolInstalledIff ==
    /\ \A i \in 1..Len(tasks) :
          tasks[i].out_of_scope.installed <=>
              (VisitedBefore(i) \ {tasks[i].taskId}) # {}
    /\ tasks # <<>> => ~tasks[1].out_of_scope.installed
    /\ Len(registeredFactories) = 1 =>
          \A i \in 1..Len(tasks) : ~tasks[i].out_of_scope.installed

C17_Witness ==
    /\ Len(tasks) >= 3
    /\ ~tasks[1].out_of_scope.installed
    /\ tasks[2].out_of_scope.installed
    /\ tasks[currentTask].out_of_scope.installed
    /\ tasks[currentTask].taskId \in VisitedBefore(currentTask)

\* C18: the ids an installed tool offers, in its description and in the enum of
\* its parameters, are the ids visited before its instance was started without
\* the instance's own id, and each of them is registered.
C18_OfferedTargets ==
    \A i \in 1..Len(tasks) :
        tasks[i].out_of_scope.installed =>
            /\ tasks[i].out_of_scope.taskIdValues = VisitedBefore(i) \ {tasks[i].taskId}
            /\ tasks[i].out_of_scope.taskRepr = tasks[i].out_of_scope.taskIdValues
            /\ tasks[i].out_of_scope.taskIdValues \subseteq KeySet(registeredFactories)
            /\ tasks[i].taskId \notin tasks[i].out_of_scope.taskIdValues

C18_Witness ==
    /\ pc = "run"
    /\ tasks[currentTask].out_of_scope.installed
    /\ tasks[currentTask].taskId \in VisitedBefore(currentTask)
    /\ Cardinality(tasks[currentTask].out_of_scope.taskIdValues) = 2
    /\ visitedTasks # tasks[currentTask].out_of_scope.taskIdValues

\* The number of places of s that hold x.
Occurrences(s, x) == Cardinality({k \in 1..Len(s) : s[k] = x})
\* Instance i was completed with an OutOfScopeError and the loop has consumed it.
Regressed(i) ==
    /\ tasks[i].outcome.kind = "OutOfScopeError"
    /\ (i < currentTask \/ pc # "run")

\* C19: the loop queues every occurrence of a target: after it consumes an
\* OutOfScopeError each id is in the queue as often as before plus as often as the
\* targets list it (plus once for the interrupted id), and the instances started
\* next follow the targets place by place, then the interrupted id, as long as
\* none of them is itself completed with an OutOfScopeError.
C19_DuplicatesKept ==
    /\ RegressionConsumed =>
          /\ Len(taskStack) = Len(tasks[currentTask].outcome.targetTaskIds) + 1
                                  + Len(last.taskStack)
          /\ \A x \in TaskIds :
                Occurrences(taskStack, x) =
                    Occurrences(tasks[currentTask].outcome.targetTaskIds, x)
                    + (IF x = tasks[currentTask].taskId THEN 1 ELSE 0)
                    + Occurrences(last.taskStack, x)
    /\ \A i \in 1..Len(tasks) : Regressed(i) =>
          LET order == Append(tasks[i].outcome.targetTaskIds, tasks[i].taskId)
          IN  \A k \in 1..Len(order) :
                (/\ i + k <= Len(tasks)
                 /\ \A j \in (i + 1)..(i + k - 1) :
                       tasks[j].outcome.kind # "OutOfScopeError") =>
                    tasks[i + k].taskId = order[k]

C19_Witness ==
    \E i \in 1..Len(tasks) :
        /\ Regressed(i)
        /\ Len(tasks[i].outcome.targetTaskIds) = 2
        /\ tasks[i].outcome.targetTaskIds[1] = tasks[i].outcome.targetTaskIds[2]
        /\ tasks[i].outcome.targetTaskIds[1] # tasks[i].taskId
        /\ Len(tasks) = i + 2
        /\ tasks[i + 1].outcome.kind = "value"
        /\ tasks[i + 2].outcome.kind = "value"
        /\ pc = "loop"
        /\ Head(taskStack) = tasks[i].taskId

\* C20: every id in the queue is a key of the registry, so the lookup of the id
\* popped from the queue finds its entry.
C20_QueueRegistered ==
    /\ SeqToSet(taskStack) \subseteq KeySet(registeredFactories)
    /\ last.event = "StartTask" =>
          /\ Has(registeredFactories, Head(last.taskStack))
          /\ tasks[currentTask].factory = Get(registeredFactories, Head(last.taskStack))

C20_Witness ==
    /\ returnExceptions
    /\ RegressionRaised
    /\ TaskFailed
    /\ \E k \in 1..Len(taskResults) : taskResults[k].val.kind = "value"
    /\ \E k \in 1..Len(taskResults) : taskResults[k].val.kind = "Error"
    /\ last.event = "StartTask"
    /\ taskStack # <<>>
    /\ Len(registeredFactories) < Len(IdOrder)

\* The instances whose run() has not ended.
Running == {i \in 1..Len(tasks) : ~tasks[i].done}

\* C21: at most one instance is running, and it is the current one; a task is
\* started only from the head of the loop, with every earlier instance ended, and
\* the loop is back at its head after a success only once the callback, if there
\* is one, has ended.
C21_OneAtATime ==
    /\ Cardinality(Running) <= 1
    /\ Running \subseteq {currentTask}
    /\ Running # {} => pc = "run"
    /\ last.event = "StartTask" =>
          /\ last.pc = "loop"
          /\ \A i \in 1..Len(last.tasks) :
                last.tasks[i].done /\ last.tasks[i].outcome # NoOutcome
          /\ Len(tasks) = Len(last.tasks) + 1
          /\ currentTask = Len(tasks)
    /\ (hasCallback /\ last.event = "RunResolved") => pc = "callback"
    /\ pc = "callback" =>
          tasks[currentTask].done /\ tasks[currentTask].outcome.kind = "value"
    /\ (pc = "loop" /\ last.pc = "callback") =>
          last.event \in {"CallbackReturns", "CallbackThrows"}

C21_Witness ==
    /\ last.event = "StartTask"
    /\ Len(tasks) >= 3
    /\ hasCallback
    /\ RegressionRaised
    /\ TaskFailed
    /\ callbackLog # <<>>
    /\ Running = {currentTask}

\* C22: the tool of an instance completes that instance only, and only while it
\* is not done: a call of the tool of an instance that is done (an earlier
\* instance, or the current one after it was completed) raises nothing, whatever
\* its targets, and leaves the tasks, the queue and the loop where they were; a
\* call that raises completes an instance that was not done, so an instance
\* carries one OutOfScopeError at most, and the loop consumes one per iteration.
C22_ToolBoundToInstance ==
    /\ \A inst \in 1..Len(tasks) : tasks[inst].out_of_scope.installed =>
          \A task_ids \in TargetLists, parsed \in BOOLEAN :
             LET r == CallResult(inst, task_ids, parsed)
             IN  /\ r.target = inst
                 /\ tasks[inst].done => ~r.raised
                 /\ inst # currentTask => ~r.raised
    /\ (lastCall.kind = "call" /\ lastCall.stale) =>
          /\ ~lastCall.raised
          /\ tasks = last.tasks
          /\ taskStack = last.taskStack
          /\ taskResults = last.taskResults
          /\ pc = last.pc
          /\ Running = {i \in 1..Len(last.tasks) : ~last.tasks[i].done}
    /\ (lastCall.kind = "call" /\ lastCall.raised) =>
          /\ ~last.tasks[currentTask].done
          /\ tasks[currentTask].outcome.kind = "OutOfScopeError"
          /\ \A i \in 1..Len(tasks) : i # currentTask => tasks[i] = last.tasks[i]
    /\ last.event = "RunRejected" => (last.pc = "run" /\ pc # "run")
    /\ (pc = "run" /\ last.pc # "run") => last.event = "StartTask"

\* A call of the tool of an earlier instance, with targets execute accepts, while
\* a later instance is running.
C22_Witness ==
    /\ lastCall.kind = "call"
    /\ lastCall.stale
    /\ lastCall.error = NoError
    /\ pc = "run"
    /\ Running = {currentTask}
    /\ taskStack # <<>>

\* The loop was left by the fail-fast branch of the catch block.
Aborted ==
    /\ pc = "returned"
    /\ last.event \in {"RunRejected", "CallbackThrows"}

\* C23: the summarization is reached only with summarizeChatCtx set, from the end
\* of the loop with the queue empty and the group not completed; it is not
\* reached without summarizeChatCtx, and a fail-fast abort ends the run without it.
C23_SummarizeOnlyAfterDrain ==
    /\ pc = "summarize" =>
          /\ summarizeChatCtx
          /\ last.event = "LoopExit"
          /\ last.pc = "loop"
          /\ taskStack = <<>>
          /\ completed = <<>>
          /\ Running = {}
    /\ last.event \in {"SummarizeReturns", "SummarizeThrows"} =>
          /\ summarizeChatCtx
          /\ last.pc = "summarize"
          /\ last.taskStack = <<>>
          /\ last.completed = <<>>
    /\ (~summarizeChatCtx /\ pc = "returned") =>
          last.event \in {"LoopExit", "RunRejected", "CallbackThrows"}
    /\ Aborted =>
          /\ ~returnExceptions
          /\ last.pc \in {"run", "callback"}
          /\ Len(completed) = 1
          /\ completed[1].kind = "Error"
          /\ completed[1].message \notin
                {SummarizeError(e).message : e \in SummarizeErrors}

\* The summarization has been reached after a regression and a captured failure.
C23_Witness ==
    /\ pc = "summarize"
    /\ RegressionRaised
    /\ TaskFailed
    /\ Len(taskResults) >= 2

\* A fail-fast abort with summarizeChatCtx set and the queue not empty.
C23_WitnessAbort ==
    /\ Aborted
    /\ summarizeChatCtx
    /\ taskStack # <<>>

\* C25: the results never hold a key that is not registered, and when the run
\* resolves their keys are the registered ids, each with a value or, with
\* returnExceptions only, with a captured error.
C25_ResultKeysAreRegistered ==
    /\ KeySet(taskResults) \subseteq KeySet(registeredFactories)
    /\ Resolved =>
          /\ \A id \in KeySet(registeredFactories) : Has(taskResults, id)
          /\ \A id \in TaskIds \ KeySet(registeredFactories) : ~Has(taskResults, id)
          /\ completed = <<TaskGroupResult(taskResults)>>
          /\ \A k \in 1..Len(taskResults) :
                \/ taskResults[k].val.kind = "value"
                \/ returnExceptions /\ taskResults[k].val.kind \in {"Error", "thrown"}

C25_Witness ==
    /\ Resolved
    /\ RegressionRaised
    /\ returnExceptions
    /\ Len(registeredFactories) = 2
    /\ \E k \in 1..Len(taskResults) : taskResults[k].val.kind = "Error"
    /\ \E k \in 1..Len(taskResults) : taskResults[k].val.kind = "value"

\* C26: complete() is called once on every path on which onEnter returns, and not
\* before: with an Error or with the result set; no step of the run (no start of
\* a task, no callback) is taken once it has been called.
C26_CompletedOnce ==
    /\ Len(completed) <= 1
    /\ pc = "returned" <=> Len(completed) = 1
    /\ \A k \in 1..Len(completed) : completed[k].kind \in {"Error", "result"}
    /\ last.completed = <<>>
    /\ pc = "returned" =>
          /\ last.event \in {"RunRejected", "CallbackThrows", "LoopExit",
                              "SummarizeReturns", "SummarizeThrows"}
          /\ last.event \in {"RunRejected", "CallbackThrows", "SummarizeThrows"} =>
                completed[1].kind = "Error"
          /\ last.event \in {"LoopExit", "SummarizeReturns"} =>
                completed[1] = TaskGroupResult(taskResults)
          /\ Running = {}
          /\ ~ENABLED Next

C26_Witness ==
    /\ pc = "returned"
    /\ last.event = "CallbackThrows"
    /\ summarizeChatCtx
    /\ taskStack # <<>>
    /\ Len(callbackLog) >= 2

\* onEnter has returned and the group is completed, with an error or the results.
Finished ==
    /\ pc = "returned"
    /\ Len(completed) = 1
    /\ completed[1].kind \in {"Error", "result"}

\* C24: once onEnter is entered, with every attempt, callback and summarization
\* ending and the OutOfScopeErrors of the run bounded, the run finishes: the group
\* is completed with the results or with an error.
C24_RunFinishes == (pc # "init") ~> Finished

\* C24: the bound on the instances is not what ends these runs.
C24_NeverCapped == (pc = "loop" /\ taskStack # <<>>) => Len(tasks) < LiveAttempts

\* A run that finished after two regressions made the queue longer than the registry.
C24_Witness ==
    /\ Finished
    /\ Resolved
    /\ Regressions = MaxRegressions
    /\ Len(registeredFactories) = LiveMaxAdds
    /\ Len(tasks) = LiveAttempts

\* C24, without a bound: the loop consumes an OutOfScopeError of an instance and is
\* in the state it was in after it consumed the one of that id's instance before
\* (same queue, same keys of the results), so the same steps can be taken again.
C24_RegressionCycle ==
    /\ RegressionConsumed
    /\ PreviousAttempt # 0
    /\ tasks[PreviousAttempt].outcome = tasks[currentTask].outcome
    /\ currentTask =
          PreviousAttempt + Len(tasks[currentTask].outcome.targetTaskIds) + 1
    /\ \A j \in (PreviousAttempt + 1)..(currentTask - 1) :
          /\ tasks[j].outcome.kind = "value"
          /\ tasks[j].taskId = tasks[currentTask].outcome.targetTaskIds[j - PreviousAttempt]
    /\ tasks[currentTask].outcome.targetTaskIds # <<>>
    /\ Len(taskStack) > Len(last.taskStack) + 1

====
